---- MODULE Spec2Model ----
(***************************************************************************)
(* Model of databento/epoch (src/src/main.rs): the Reformatter that scans  *)
(* a line for ASCII digit runs, classifies each run as a Unix epoch        *)
(* timestamp in seconds, milliseconds or nanoseconds against three ranges  *)
(* calibrated at start-up, and rewrites the accepted runs as RFC 3339      *)
(* text; and the driver (main) that feeds it lines or arguments.           *)
(*                                                                         *)
(* TLC's integers are 32 bits wide, the program's are 64: an i64 is        *)
(* modelled as a signed decimal numeral [neg, mag], mag being the digits   *)
(* of the magnitude, most significant first, without leading zeros (0 is   *)
(* the empty sequence).  Text is a sequence of Unicode scalar values; byte *)
(* offsets into it are the offsets of its UTF-8 encoding.                  *)
(***************************************************************************)
EXTENDS Integers, Sequences, FiniteSets, TLC

Max(a, b) == IF a >= b THEN a ELSE b
Min(a, b) == IF a <= b THEN a ELSE b

(***************************************************************************)
(* Decimal magnitudes.                                                     *)
(***************************************************************************)
RECURSIVE Strip(_)
Strip(s) == IF s # <<>> /\ Head(s) = 0 THEN Strip(Tail(s)) ELSE s

Zeros(k) == [i \in 1..k |-> 0]

\* the k-th digit from the right (k >= 1), 0 beyond the numeral
DigitAt(a, k) == IF k <= Len(a) THEN a[Len(a) + 1 - k] ELSE 0

MagLt(a, b) ==
    \/ Len(a) < Len(b)
    \/ /\ Len(a) = Len(b)
       /\ \E i \in 1..Len(a) : a[i] < b[i] /\ \A j \in 1..(i - 1) : a[j] = b[j]

MagLe(a, b) == a = b \/ MagLt(a, b)

\* digits k..n (counted from the right) of a + b, given the carry into digit k
RECURSIVE AddFrom(_, _, _, _, _)
AddFrom(a, b, k, n, carry) ==
    IF k > n THEN <<>>
    ELSE AddFrom(a, b, k + 1, n, (DigitAt(a, k) + DigitAt(b, k) + carry) \div 10)
         \o <<(DigitAt(a, k) + DigitAt(b, k) + carry) % 10>>

MagAdd(a, b) == Strip(AddFrom(a, b, 1, Max(Len(a), Len(b)) + 1, 0))

\* digits k..n of a - b, given the borrow out of digit k - 1
RECURSIVE SubFrom(_, _, _, _, _)
SubFrom(a, b, k, n, borrow) ==
    IF k > n THEN <<>>
    ELSE SubFrom(a, b, k + 1, n,
                 IF DigitAt(a, k) - DigitAt(b, k) - borrow < 0 THEN 1 ELSE 0)
         \o <<(DigitAt(a, k) - DigitAt(b, k) - borrow + 10) % 10>>

\* a - b for a >= b
MagSub(a, b) == Strip(SubFrom(a, b, 1, Len(a), 0))

\* digits k..n of a * m, given the carry into digit k
RECURSIVE MulFrom(_, _, _, _, _)
MulFrom(a, m, k, n, carry) ==
    IF k > n THEN <<>>
    ELSE MulFrom(a, m, k + 1, n, (DigitAt(a, k) * m + carry) \div 10)
         \o <<(DigitAt(a, k) * m + carry) % 10>>

\* a * m for a small multiplier 0 <= m < 10^8
MagMulSmall(a, m) == Strip(MulFrom(a, m, 1, Len(a) + 9, 0))

\* a * 10^k
MagShl(a, k) == IF a = <<>> THEN <<>> ELSE a \o Zeros(k)

\* a \div 10^k
MagShr(a, k) == IF Len(a) <= k THEN <<>> ELSE SubSeq(a, 1, Len(a) - k)

\* a % 10^k
MagLow(a, k) == Strip(IF Len(a) <= k THEN a ELSE SubSeq(a, Len(a) - k + 1, Len(a)))

\* the magnitude of a natural number of TLC's
RECURSIVE NatMag(_)
NatMag(n) == IF n = 0 THEN <<>> ELSE NatMag(n \div 10) \o <<n % 10>>

\* the natural number of a magnitude below 2^31
RECURSIVE MagNat(_)
MagNat(a) == IF a = <<>> THEN 0 ELSE MagNat(SubSeq(a, 1, Len(a) - 1)) * 10 + a[Len(a)]

\* long division of a magnitude by a small divisor 0 < m < 10^8: the digits
\* i.. of a are brought down onto the remainder so far
RECURSIVE DivFrom(_, _, _, _)
DivFrom(a, m, i, rem) ==
    IF i > Len(a) THEN [q |-> <<>>, r |-> rem]
    ELSE LET cur  == rem * 10 + a[i]
             rest == DivFrom(a, m, i + 1, cur % m)
         IN  [q |-> <<cur \div m>> \o rest.q, r |-> rest.r]

MagDivSmall(a, m) ==
    LET d == DivFrom(a, m, 1, 0)
    IN  [q |-> Strip(d.q), r |-> d.r]

(***************************************************************************)
(* Signed 64-bit integers (i64) as signed decimal numerals.                *)
(***************************************************************************)
SMk(neg, mag) == [neg |-> neg /\ mag # <<>>, mag |-> mag]

SNat(n) == SMk(FALSE, NatMag(n))

SNeg(x) == SMk(~x.neg, x.mag)

SAdd(x, y) ==
    IF x.neg = y.neg THEN SMk(x.neg, MagAdd(x.mag, y.mag))
    ELSE IF MagLe(y.mag, x.mag) THEN SMk(x.neg, MagSub(x.mag, y.mag))
    ELSE SMk(y.neg, MagSub(y.mag, x.mag))

SSub(x, y) == SAdd(x, SNeg(y))

SLt(x, y) ==
    IF x.neg # y.neg THEN x.neg
    ELSE IF x.neg THEN MagLt(y.mag, x.mag)
    ELSE MagLt(x.mag, y.mag)

SLe(x, y) == x = y \/ SLt(x, y)

SMulSmall(x, m) == SMk(x.neg, MagMulSmall(x.mag, m))

\* x * 10^k, exactly
SMulPow10(x, k) == SMk(x.neg, MagShl(x.mag, k))

I64_MAX == SMk(FALSE, <<9,2,2,3,3,7,2,0,3,6,8,5,4,7,7,5,8,0,7>>)
I64_MIN == SMk(TRUE, <<9,2,2,3,3,7,2,0,3,6,8,5,4,7,7,5,8,0,8>>)
TWO_64 == SMk(FALSE, <<1,8,4,4,6,7,4,4,0,7,3,7,0,9,5,5,1,6,1,6>>)

FitsI64(x) == SLe(I64_MIN, x) /\ SLe(x, I64_MAX)

\* a mod 2^64 for a magnitude a, by schoolbook reduction from the top decade
RECURSIVE MagMod64(_, _)
MagMod64(a, k) ==
    LET m == MagShl(TWO_64.mag, k)
    IN  IF MagLe(m, a) THEN MagMod64(MagSub(a, m), k)
        ELSE IF k = 0 THEN a
        ELSE MagMod64(a, k - 1)

\* two's complement wrap-around of an exact result into the i64 range
WrapI64(x) ==
    LET m == MagMod64(x.mag, Max(0, Len(x.mag) - 20))
        u == IF x.neg /\ m # <<>> THEN MagSub(TWO_64.mag, m) ELSE m
    IN  IF MagLe(u, I64_MAX.mag) THEN SMk(FALSE, u)
        ELSE SMk(TRUE, MagSub(TWO_64.mag, u))

\* The i64 product  x * 10^k  as the build computes it: with overflow checks
\* (a debug build) an overflow panics, without them (a release build) it wraps.
MulPow10I64(x, k, overflow_checks) ==
    LET exact == SMulPow10(x, k)
    IN  IF FitsI64(exact) THEN [ok |-> TRUE, v |-> exact]
        ELSE IF overflow_checks THEN [ok |-> FALSE, v |-> exact]
        ELSE [ok |-> TRUE, v |-> WrapI64(exact)]

\* Range<i64>::contains: start <= n < end
RangeContains(r, n) == SLe(r.start, n) /\ SLt(n, r.end)

\* format!("{x}").len(): the digits, and the sign of a negative number
DecimalLen(x) == (IF x.neg THEN 1 ELSE 0) + Max(1, Len(x.mag))

(***************************************************************************)
(* Reformatter::new                                                        *)
(***************************************************************************)
I32_MIN == -2147483647 - 1

\* i32::abs followed by `as i64`: i32::MIN has no absolute value; with
\* overflow checks abs panics, without them it returns i32::MIN.
AbsI32(t, overflow_checks) ==
    IF t = I32_MIN
    THEN [ok |-> ~overflow_checks, v |-> SMk(TRUE, MagAdd(NatMag(-(t + 1)), <<1>>))]
    ELSE [ok |-> TRUE, v |-> SNat(IF t < 0 THEN -t ELSE t)]

\* chrono::Duration::days: the duration in seconds; chrono panics when it
\* is beyond i64::MAX milliseconds.
DURATION_MAX_SECS == SMk(FALSE, <<9,2,2,3,3,7,2,0,3,6,8,5,4,7,7,5>>)
DurationDays(days) ==
    LET secs == SMulSmall(days, 86400)
    IN  [ok |-> MagLe(secs.mag, DURATION_MAX_SECS.mag), v |-> secs]

\* DateTime<Utc> + Duration and .timestamp(): chrono panics when the sum
\* leaves the dates it represents (-262143-01-01 .. +262142-12-31).
DATETIME_MIN_S == SMk(TRUE, <<8,3,3,4,6,0,1,3,1,5,2,0,0>>)
DATETIME_MAX_S == SMk(FALSE, <<8,2,1,0,2,6,6,8,7,6,7,9,9>>)
DateTimeAdd(t, dt) ==
    LET s == SAdd(t, dt)
    IN  [ok |-> SLe(DATETIME_MIN_S, s) /\ SLe(s, DATETIME_MAX_S), v |-> s]

\* lower_s * 10^k .. upper_s * 10^k, as the build computes the two products
ScaledBound_UnscaledLower(lower_s, upper_s, k, overflow_checks) ==
    LET hi == MulPow10I64(upper_s, k, overflow_checks)
    IN  [ok |-> hi.ok, range |-> [start |-> lower_s, end |-> hi.v]]

ScaledBound(lower_s, upper_s, k, overflow_checks) ==
    LET lo == MulPow10I64(lower_s, k, overflow_checks)
        hi == MulPow10I64(upper_s, k, overflow_checks)
    IN  [ok |-> lo.ok /\ hi.ok, range |-> [start |-> lo.v, end |-> hi.v]]

New(threshold_years, now_s, localize_, quote_, overflow_checks) ==
    LET abs      == AbsI32(threshold_years, overflow_checks)
        dt       == DurationDays(SMulSmall(abs.v, 365))
        upper    == DateTimeAdd(now_s, dt.v)
        lower    == DateTimeAdd(now_s, SNeg(dt.v))
        upper_s  == upper.v
        lower_s  == lower.v
        bound_ms == ScaledBound(lower_s, upper_s, 3, overflow_checks)
        bound_ns == ScaledBound(lower_s, upper_s, 9, overflow_checks)
    IN  IF ~(abs.ok /\ dt.ok /\ upper.ok /\ lower.ok /\ bound_ms.ok /\ bound_ns.ok)
        THEN [ok |-> FALSE]
        ELSE [ok       |-> TRUE,
              min_len  |-> DecimalLen(lower_s),
              bound_s  |-> [start |-> lower_s, end |-> upper_s],
              bound_ms |-> bound_ms.range,
              bound_ns |-> bound_ns.range,
              localize |-> localize_,
              quote    |-> quote_]

(***************************************************************************)
(* Text: a str is a sequence of Unicode scalar values (chars); indices     *)
(* into it are byte offsets of its UTF-8 encoding, as char_indices yields  *)
(* them and as slicing takes them.                                         *)
(***************************************************************************)
\* char::len_utf8
Utf8Len(c) == IF c < 128 THEN 1 ELSE IF c < 2048 THEN 2 ELSE IF c < 65536 THEN 3 ELSE 4

\* char_indices: the byte offset of every char of s, and s.len() at the end
RECURSIVE CharOffsets(_)
CharOffsets(s) ==
    IF s = <<>> THEN <<0>>
    ELSE LET p == CharOffsets(SubSeq(s, 1, Len(s) - 1))
         IN  Append(p, p[Len(p)] + Utf8Len(s[Len(s)]))

\* the byte offset of the i-th char (1-based); i = Len(s) + 1 gives s.len()
ByteOff(off, i) == off[i]

StrLen(off) == off[Len(off)]

IsCharBoundary(off, b) == \E i \in 1..Len(off) : off[i] = b

\* &s[a..b], off being the char offsets of s: panics unless a <= b <= s.len()
\* and both lie on char boundaries
Slice(s, off, a, b) ==
    IF a <= b /\ IsCharBoundary(off, a) /\ IsCharBoundary(off, b)
    THEN LET ia == CHOOSE i \in 1..Len(off) : off[i] = a
             ib == CHOOSE i \in 1..Len(off) : off[i] = b
         IN  [ok |-> TRUE, s |-> SubSeq(s, ia, ib - 1)]
    ELSE [ok |-> FALSE, s |-> <<>>]

\* NUMBERS.contains(c): the ASCII digits '0'..='9'
IsNumber(c) == 48 <= c /\ c <= 57

\* Iterator::find on the char_indices iterator standing before char `it`:
\* the index of the first char from `it` on that is (or is not) a number, or
\* 0 when the iterator runs out
RECURSIVE FindNumber(_, _)
FindNumber(line, it) ==
    IF it > Len(line) THEN 0
    ELSE IF IsNumber(line[it]) THEN it
    ELSE FindNumber(line, it + 1)

RECURSIVE FindNonNumber(_, _)
FindNonNumber(line, it) ==
    IF it > Len(line) THEN 0
    ELSE IF ~IsNumber(line[it]) THEN it
    ELSE FindNonNumber(line, it + 1)

\* str::parse::<i64> of a run of ASCII digits: Err when the value exceeds i64::MAX
ParseI64(number) ==
    LET v == SMk(FALSE, Strip([i \in 1..Len(number) |-> number[i] - 48]))
    IN  [ok |-> SLe(v, I64_MAX), v |-> v]

(***************************************************************************)
(* The classifier: the closure given to and_then in Reformatter::write.    *)
(***************************************************************************)
Classify(rf, n, overflow_checks) ==
    IF RangeContains(rf.bound_s, n)
    THEN LET p == MulPow10I64(n, 9, overflow_checks)
         IN  [ok |-> p.ok, some |-> TRUE, time_ns |-> p.v, sec_fmt |-> "Secs"]
    ELSE IF RangeContains(rf.bound_ms, n)
    THEN LET p == MulPow10I64(n, 6, overflow_checks)
         IN  [ok |-> p.ok, some |-> TRUE, time_ns |-> p.v, sec_fmt |-> "Millis"]
    ELSE IF RangeContains(rf.bound_ns, n)
    THEN [ok |-> TRUE, some |-> TRUE, time_ns |-> n, sec_fmt |-> "Nanos"]
    ELSE [ok |-> TRUE, some |-> FALSE, time_ns |-> n, sec_fmt |-> "None"]

(***************************************************************************)
(* The formatter: Reformatter::rfc_format and chrono's rendering of it.    *)
(***************************************************************************)
\* the strftime pattern, item by item
DateTimeItems == <<"%Y", "-", "%m", "-", "%d", "T", "%H", ":", "%M", ":", "%S">>

\* the Millis and Nanos arms exchanged
rfc_format_SwappedArms(localize_, sec_fmt) ==
    DateTimeItems
    \o (IF sec_fmt = "Secs" THEN <<>>
        ELSE IF sec_fmt = "Millis" THEN <<"%.9f">>
        ELSE <<"%.3f">>)
    \o (IF localize_ THEN <<"%Z">> ELSE <<"Z">>)

rfc_format(localize_, sec_fmt) ==
    DateTimeItems
    \o (IF sec_fmt = "Secs" THEN <<>>
        ELSE IF sec_fmt = "Millis" THEN <<"%.3f">>
        ELSE <<"%.9f">>)
    \o (IF localize_ THEN <<"%Z">> ELSE <<"Z">>)

\* floor division of a signed numeral by a small positive divisor; the
\* quotient is small enough for an integer of TLC's
SFloorDivSmall(x, m) ==
    LET d == MagDivSmall(x.mag, m)
    IN  IF ~x.neg THEN [q |-> MagNat(d.q), r |-> d.r]
        ELSE IF d.r = 0 THEN [q |-> -MagNat(d.q), r |-> 0]
        ELSE [q |-> -(MagNat(d.q) + 1), r |-> m - d.r]

\* Utc.timestamp_nanos(time_ns): seconds and nanoseconds of the instant
TimestampNanos(time_ns) ==
    LET hi == MagShr(time_ns.mag, 9)
        lo == MagLow(time_ns.mag, 9)
    IN  IF ~time_ns.neg THEN [secs |-> SMk(FALSE, hi), nanos |-> lo]
        ELSE IF lo = <<>> THEN [secs |-> SMk(TRUE, hi), nanos |-> <<>>]
        ELSE [secs  |-> SMk(TRUE, MagAdd(hi, <<1>>)),
              nanos |-> MagSub(<<1,0,0,0,0,0,0,0,0,0>>, lo)]

\* the civil date of a day number counted from 1970-01-01 (proleptic Gregorian)
CivilFromDays(days) ==
    LET z   == days + 719468
        era == z \div 146097
        doe == z - era * 146097
        yoe == (doe - doe \div 1460 + doe \div 36524 - doe \div 146096) \div 365
        doy == doe - (365 * yoe + yoe \div 4 - yoe \div 100)
        mp  == (5 * doy + 2) \div 153
        d   == doy - (153 * mp + 2) \div 5 + 1
        m   == IF mp < 10 THEN mp + 3 ELSE mp - 9
    IN  [year |-> yoe + era * 400 + (IF m <= 2 THEN 1 ELSE 0), month |-> m, day |-> d]

\* a natural number in decimal, zero-padded to w chars
Pad(n, w) == [i \in 1..w |-> 48 + ((n \div (10 ^ (w - i))) % 10)]

\* a magnitude in decimal, zero-padded to w chars
PadMag(a, w) == [i \in 1..w |-> 48 + DigitAt(a, w + 1 - i)]

\* one item of the pattern rendered for the instant dt seen at UTC offset
\* `offset` seconds (0 for DateTime<Utc>)
FormatItem(item, dt, offset) ==
    LET local == SFloorDivSmall(SAdd(dt.secs, IF offset < 0 THEN SNeg(SNat(-offset))
                                                            ELSE SNat(offset)), 86400)
        date  == CivilFromDays(local.q)
        sod   == local.r
        aoff  == IF offset < 0 THEN -offset ELSE offset
    IN  CASE item = "%Y"   -> Pad(date.year, 4)
          [] item = "%m"   -> Pad(date.month, 2)
          [] item = "%d"   -> Pad(date.day, 2)
          [] item = "%H"   -> Pad(sod \div 3600, 2)
          [] item = "%M"   -> Pad((sod \div 60) % 60, 2)
          [] item = "%S"   -> Pad(sod % 60, 2)
          [] item = "%.3f" -> <<46>> \o PadMag(MagShr(dt.nanos, 6), 3)
          [] item = "%.9f" -> <<46>> \o PadMag(dt.nanos, 9)
          [] item = "%Z"   -> <<IF offset < 0 THEN 45 ELSE 43>>
                              \o Pad(aoff \div 3600, 2) \o <<58>> \o Pad((aoff \div 60) % 60, 2)
          [] item = "-"    -> <<45>>
          [] item = ":"    -> <<58>>
          [] item = "T"    -> <<84>>
          [] item = "Z"    -> <<90>>

RECURSIVE FormatItems(_, _, _)
FormatItems(items, dt, offset) ==
    IF items = <<>> THEN <<>>
    ELSE FormatItem(Head(items), dt, offset) \o FormatItems(Tail(items), dt, offset)

\* time.format(..) / DateTime::<Local>::from(time).format(..)
FormatTime(rf, time_ns, sec_fmt, local_offset) ==
    FormatItems(rfc_format(rf.localize, sec_fmt), TimestampNanos(time_ns),
                IF rf.localize THEN local_offset ELSE 0)

(***************************************************************************)
(* Reformatter::write: one iteration of its `while let` loop, started with *)
(* the char_indices iterator standing before char `it` of the line.  The   *)
(* result says whether the iteration panicked, where the iterator stands   *)
(* afterwards, what was written, and the locals of the iteration.          *)
(***************************************************************************)
\* The end of the digit run that starts at char ns: the first char after it
\* that is no number gives number_end and is text_after; when the line ends
\* first, number_end is line.len() and text_after is empty.
NumberEnd_OffByOne(line, off, ns) ==
    LET ne == FindNonNumber(line, ns + 1)
    IN  IF ne = 0
        THEN [number_end |-> StrLen(off) - 1, text_after |-> [ok |-> TRUE, s |-> <<>>],
              it |-> Len(line) + 1]
        ELSE [number_end |-> ByteOff(off, ne),
              text_after |-> Slice(line, off, ByteOff(off, ne), ByteOff(off, ne) + 1),
              it |-> ne + 1]

NumberEnd(line, off, ns) ==
    LET ne == FindNonNumber(line, ns + 1)
    IN  IF ne = 0
        THEN [number_end |-> StrLen(off), text_after |-> [ok |-> TRUE, s |-> <<>>],
              it |-> Len(line) + 1]
        ELSE [number_end |-> ByteOff(off, ne),
              text_after |-> Slice(line, off, ByteOff(off, ne), ByteOff(off, ne) + 1),
              it |-> ne + 1]

WriteIterAt(rf, line, off, it, overflow_checks, local_offset) ==
    LET text_start == ByteOff(off, it)
        ns         == FindNumber(line, it)
    IN  IF ns = 0
        THEN \* no digit left: write &line[text_start..] and break
             [panic |-> FALSE, it |-> Len(line) + 1, kind |-> "rest",
              emit |-> Slice(line, off, text_start, StrLen(off)).s,
              number |-> <<>>, sec_fmt |-> "None", time_ns |-> SNat(0), time |-> <<>>,
              text_after |-> <<>>]
        ELSE
        LET number_start == ByteOff(off, ns)
            end          == NumberEnd(line, off, ns)
            number_end   == end.number_end
            text_after   == end.text_after
            number       == Slice(line, off, number_start, number_end)
            parsed       == ParseI64(number.s)
            parse_result == Classify(rf, parsed.v, overflow_checks)
            text_before  == Slice(line, off, text_start, number_start)
            text         == Slice(line, off, text_start, Min(number_end + 1, StrLen(off)))
            locals       == [number |-> number.s, text_after |-> text_after.s]
            Panic        == [panic |-> TRUE, it |-> end.it, kind |-> "panic",
                             emit |-> <<>>, sec_fmt |-> "None", time_ns |-> SNat(0),
                             time |-> <<>>] @@ locals
        IN  IF ~text_after.ok THEN Panic
            ELSE IF number_end - number_start >= rf.min_len /\ parsed.ok
                    /\ parse_result.some
            THEN IF ~parse_result.ok THEN Panic
                 ELSE LET time == FormatTime(rf, parse_result.time_ns,
                                             parse_result.sec_fmt, local_offset)
                          q    == IF rf.quote THEN <<34>> ELSE <<>>
                      IN  [panic |-> FALSE, it |-> end.it, kind |-> "time",
                           emit |-> text_before.s \o q \o time \o q \o text_after.s,
                           sec_fmt |-> parse_result.sec_fmt,
                           time_ns |-> parse_result.time_ns, time |-> time] @@ locals
            ELSE IF ~text.ok THEN Panic
            ELSE [panic |-> FALSE, it |-> end.it, kind |-> "pass",
                  emit |-> text.s, sec_fmt |-> "None", time_ns |-> SNat(0),
                  time |-> <<>>] @@ locals

\* the iteration, the byte offsets of line's chars computed once
WriteIter(rf, line, it, overflow_checks, local_offset) ==
    CHOOSE r \in {WriteIterAt(rf, line, off, it, overflow_checks, local_offset) :
                      off \in {CharOffsets(line)}} : TRUE

\* the whole of write(line) from char `it` on: what it writes (up to the
\* panic, if it panics), and whether it panicked
RECURSIVE WriteFrom(_, _, _, _, _)
WriteFrom(rf, line, it, overflow_checks, local_offset) ==
    IF it > Len(line) THEN [panic |-> FALSE, out |-> <<>>]
    ELSE CHOOSE w \in
            {IF r.panic THEN [panic |-> TRUE, out |-> r.emit]
             ELSE CHOOSE v \in
                    {[panic |-> t.panic, out |-> r.emit \o t.out] :
                        t \in {WriteFrom(rf, line, r.it, overflow_checks, local_offset)}} : TRUE
             : r \in {WriteIter(rf, line, it, overflow_checks, local_offset)}} : TRUE

(***************************************************************************)
(* The inputs of a run.                                                    *)
(***************************************************************************)
\* the most segments a text is put together from
MaxSegs == 3

\* the default of --threshold
DEFAULT_THRESHOLD == 8

\* digit runs: too short for any range; seconds, milliseconds and
\* nanoseconds of instants in 2024 (those of tests/integration_tests.rs)
Short3    == <<51>>
TsSecs    == <<49,55,48,57,49,53,50,57,56,57>>
TsMillis  == <<49,55,48,57,49,53,50,57,56,57,52,53,54>>
TsNanos   == <<49,55,48,53,56,56,50,52,57,56,52,51,49,49,54,49,51,48,49>>
\* 10^10 seconds and the last second of 2001-09-08: inside bound_s only for
\* thresholds that reach back to 1970
TenPow10  == <<49,48,48,48,48,48,48,48,48,48,48>>
Nines9    == <<57,57,57,57,57,57,57,57,57>>
\* ' ', 'x' and the two-byte char U+00B5
Space     == <<32>>
LetterX   == <<120>>
Micro     == <<181>>

Tokens == {Short3, TsSecs, TsMillis, TsNanos, Space, LetterX, Micro}

RECURSIVE TextsUpTo(_)
TextsUpTo(n) ==
    IF n = 0 THEN {<<>>}
    ELSE LET shorter == TextsUpTo(n - 1)
         IN  shorter \cup {t \o k : t \in shorter, k \in Tokens}

Texts == TextsUpTo(MaxSegs)

\* texts that probe the calibration at the edges of the ranges
ProbeTexts ==
    {Short3, TsSecs, TsMillis, TsNanos, TenPow10, Nines9,
     Nines9 \o Space \o TsSecs, TsSecs \o Micro, LetterX \o TenPow10 \o LetterX}

\* --threshold values beyond the default: negative, reaching 1970, reaching
\* past the i64 range in nanoseconds, past chrono's dates, and i32::MIN
Thresholds == {DEFAULT_THRESHOLD, -DEFAULT_THRESHOLD, 1, 54, 55, 60, 238, 239, 300, 347,
               300000, I32_MIN}

\* Utc::now() in seconds: 2024-02-28T20:43:09Z, 2026-11-04T00:00:00Z, and an
\* instant of the year 2555, a year after the second whose nanoseconds are
\* the first to pass 2^64
Nows == {SNat(1709152989), SNat(1793750400), SMk(FALSE, <<1,8,4,7,8,2,8,0,0,7,4>>)}

\* the host's UTC offset in seconds
LocalOffsets == {0, 19800, -18000}

\* the text split at every occurrence of the char sep (the shell splitting a
\* command line into arguments; the lines of a file)
RECURSIVE SplitAt(_, _)
SplitAt(text, sep) ==
    LET hits == {j \in 1..Len(text) : text[j] = sep}
    IN  IF hits = {} THEN <<text>>
        ELSE LET j == CHOOSE h \in hits : \A k \in hits : h <= k
             IN  <<SubSeq(text, 1, j - 1)>> \o SplitAt(SubSeq(text, j + 1, Len(text)), sep)

RECURSIVE JoinWith(_, _)
JoinWith(strs, sep) ==
    IF strs = <<>> THEN <<>>
    ELSE IF Len(strs) = 1 THEN strs[1]
    ELSE strs[1] \o <<sep>> \o JoinWith(Tail(strs), sep)

(***************************************************************************)
(* The state of a run of the program.                                      *)
(***************************************************************************)
VARIABLES
    threshold_years,  \* args.threshold
    now,              \* Utc::now() at start-up, in seconds (an i64)
    overflow_checks,  \* the build: TRUE panics on integer overflow, FALSE wraps
    local_offset,     \* the host's UTC offset
    args_local,       \* args.local
    args_quote,       \* args.quote
    source,           \* "file", "strings" or "stdin": the branch main takes
    items,            \* the lines of the input, or args.strings
    done,             \* how many items main has processed
    reformatter,      \* the Reformatter, [ok |-> FALSE] before it is built
    line,             \* the argument of the write call in progress
    text_iter,        \* write's iterator: the index of the next char of line
    last,             \* the locals of write's latest loop iteration
    output,           \* everything written to the output so far
    pc                \* "new", "next", "write", "done" or "panic"

vars == <<threshold_years, now, overflow_checks, local_offset, args_local, args_quote,
          source, items, done, reformatter, line, text_iter, last, output, pc>>

inputs == <<threshold_years, now, overflow_checks, local_offset, args_local, args_quote,
            source, items>>

NoIteration == [panic |-> FALSE, it |-> 0, kind |-> "none", emit |-> <<>>,
                number |-> <<>>, sec_fmt |-> "None", time_ns |-> SNat(0), time |-> <<>>,
                text_after |-> <<>>]

\* the items main iterates over: the arguments when there are any, else the
\* lines of the input
ItemsOf(src, text) ==
    IF src = "strings" THEN SplitAt(text, 32)
    ELSE IF text = <<>> THEN <<>>
    ELSE SplitAt(text, 10)

InitWith(thresholds, nows, texts, sources, builds, locals) ==
    /\ threshold_years \in thresholds
    /\ now \in nows
    /\ overflow_checks \in builds
    /\ \E l \in locals : args_local = l[1] /\ local_offset = l[2]
    /\ args_quote \in BOOLEAN
    /\ source \in sources
    /\ \E text \in texts : items = ItemsOf(source, text)
    /\ done = 0
    /\ reformatter = [ok |-> FALSE]
    /\ line = <<>>
    /\ text_iter = 1
    /\ last = NoIteration
    /\ output = <<>>
    /\ pc = "new"

Init ==
    \/ InitWith({DEFAULT_THRESHOLD}, {SNat(1709152989)}, Texts, {"strings", "stdin"}, {TRUE},
                {<<FALSE, 0>>, <<TRUE, 19800>>})
    \/ InitWith(Thresholds, Nows, ProbeTexts, {"file"}, BOOLEAN,
                {<<FALSE, 0>>} \cup {<<TRUE, o>> : o \in LocalOffsets})

(***************************************************************************)
(* main                                                                    *)
(***************************************************************************)
\* let reformatter = Reformatter::new(args.threshold, args.local, args.quote)
NewReformatter ==
    /\ pc = "new"
    /\ \E r \in {New(threshold_years, now, args_local, args_quote, overflow_checks)} :
           /\ reformatter' = r
           /\ pc' = IF r.ok THEN "next" ELSE "panic"
    /\ UNCHANGED <<inputs, done, line, text_iter, last, output>>

\* the loop header of main's branch: the next line or argument is handed to
\* reformatter.write
BeginWrite ==
    /\ pc = "next"
    /\ done < Len(items)
    /\ line' = items[done + 1]
    /\ text_iter' = 1
    /\ last' = NoIteration
    /\ pc' = "write"
    /\ UNCHANGED <<inputs, done, reformatter, output>>

\* one iteration of write's loop
WriteStep ==
    /\ pc = "write"
    /\ text_iter <= Len(line)
    /\ \E r \in {WriteIter(reformatter, line, text_iter, overflow_checks, local_offset)} :
           /\ last' = r
           /\ text_iter' = r.it
           /\ output' = output \o r.emit
           /\ pc' = IF r.panic THEN "panic" ELSE "write"
    /\ UNCHANGED <<inputs, done, reformatter, line>>

\* write returns Ok(()); main writes the separator: a space after every
\* argument but the last, a newline after the last and after every line
WriteReturn ==
    /\ pc = "write"
    /\ text_iter > Len(line)
    /\ output' = output \o (IF source = "strings" /\ done + 1 < Len(items)
                            THEN <<32>> ELSE <<10>>)
    /\ done' = done + 1
    /\ pc' = "next"
    /\ UNCHANGED <<inputs, reformatter, line, text_iter, last>>

\* the input is exhausted: main returns Ok(())
Exit ==
    /\ pc = "next"
    /\ done = Len(items)
    /\ pc' = "done"
    /\ UNCHANGED <<inputs, done, reformatter, line, text_iter, last, output>>

Next == NewReformatter \/ BeginWrite \/ WriteStep \/ WriteReturn \/ Exit

Spec == Init /\ [][Next]_vars

\* What every step of main does to its position: as long as main has neither
\* returned nor panicked it moves pc or the cursor of write.
Running ==
    /\ pc \notin {"done", "panic"}
    /\ pc' \in {"next", "write", "panic", "done"}
    /\ text_iter' \in 0..(Len(line) + 1)

\* main runs to completion: no step of it waits on anything but its input,
\* so a step that can be taken is taken
FairSpec == Spec /\ WF_<<pc, text_iter>>(Running)

(***************************************************************************)
(* What the claims speak of, stated apart from the scanning loop.          *)
(***************************************************************************)
\* the last char of the maximal digit run that starts at char i
RECURSIVE RunEnd(_, _)
RunEnd(text, i) ==
    IF i < Len(text) /\ IsNumber(text[i + 1]) THEN RunEnd(text, i + 1) ELSE i

\* the value of a digit run
ValueOf(run) == ParseI64(run).v

InRange(r, n) == SLe(r.start, n) /\ SLt(n, r.end)

InSecs(n)   == InRange(reformatter.bound_s, n)
InMillis(n) == InRange(reformatter.bound_ms, n)
InNanos(n)  == InRange(reformatter.bound_ns, n)
InAnyRange(n) == InSecs(n) \/ InMillis(n) \/ InNanos(n)

\* the run is one the classifier accepts
Accepted(run) ==
    /\ Len(run) >= reformatter.min_len
    /\ ParseI64(run).ok
    /\ InAnyRange(ValueOf(run))

\* the text an accepted run is replaced by
Replacement(run) ==
    LET c == Classify(reformatter, ValueOf(run), overflow_checks)
        q == IF args_quote THEN <<34>> ELSE <<>>
    IN  q \o FormatTime(reformatter, c.time_ns, c.sec_fmt, local_offset) \o q

\* the text with every accepted maximal digit run replaced, from char i on
RECURSIVE Rewrite(_, _)
Rewrite(text, i) ==
    IF i > Len(text) THEN <<>>
    ELSE IF ~IsNumber(text[i]) THEN <<text[i]>> \o Rewrite(text, i + 1)
    ELSE LET j   == RunEnd(text, i)
             run == SubSeq(text, i, j)
         IN  (IF Accepted(run) THEN Replacement(run) ELSE run) \o Rewrite(text, j + 1)

\* the separator main writes after the k-th item
Separator(k) == IF source = "strings" /\ k < Len(items) THEN <<32>> ELSE <<10>>

\* what the output holds once the first k items are done
RECURSIVE ExpectedOutput(_)
ExpectedOutput(k) ==
    IF k = 0 THEN <<>>
    ELSE ExpectedOutput(k - 1) \o Rewrite(items[k], 1) \o Separator(k)

WritePanicked == pc = "panic" /\ reformatter.ok
WriteFinished == pc = "write" /\ text_iter > Len(line)
Iterated      == reformatter.ok /\ last.kind \in {"time", "pass", "panic"}

EndsWith(text, suffix) ==
    /\ Len(suffix) <= Len(text)
    /\ SubSeq(text, Len(text) - Len(suffix) + 1, Len(text)) = suffix

\* some char of more than one byte stands right before or right after a digit
AdjacentMultiByte(text) ==
    \E i \in 1..(Len(text) - 1) :
        \/ IsNumber(text[i]) /\ Utf8Len(text[i + 1]) > 1
        \/ Utf8Len(text[i]) > 1 /\ IsNumber(text[i + 1])

(***************************************************************************)
(* C1.  For every line and configuration, write emits every char of the    *)
(* line once and in order, each accepted maximal digit run replaced by its *)
(* timestamp (quoted when quote is set): every write call completes, and   *)
(* the output is the rewritten items with their separators.                *)
(***************************************************************************)
C1_EveryCharOnce ==
    /\ ~WritePanicked
    /\ WriteFinished => output = ExpectedOutput(done) \o Rewrite(line, 1)
    /\ pc \in {"next", "done"} => output = ExpectedOutput(done)

\* the part of C1 that the code keeps: a write call that returns has written
\* the rewritten line
CoverageWhenWriteReturns ==
    /\ WriteFinished => output = ExpectedOutput(done) \o Rewrite(line, 1)
    /\ pc \in {"next", "done"} => output = ExpectedOutput(done)

(***************************************************************************)
(* C2.  A digit run that is shorter than min_len, or does not parse as an  *)
(* i64, or lies outside all three ranges, is written byte for byte, and    *)
(* write does not panic on it.                                             *)
(***************************************************************************)
C2_NonCandidateVerbatim ==
    (Iterated /\ ~Accepted(last.number)) =>
        /\ ~last.panic
        /\ last.kind = "pass"
        /\ EndsWith(last.emit, last.number \o last.text_after)

(***************************************************************************)
(* C3.  Multi-byte safety: a line with a multi-byte char right before or   *)
(* right after a digit run is written without a panic, the char unmodified *)
(* and in its place.                                                       *)
(***************************************************************************)
C3_MultiByteSafe ==
    (reformatter.ok /\ pc \in {"write", "panic"} /\ AdjacentMultiByte(line)) =>
        /\ pc # "panic"
        /\ text_iter > Len(line) => output = ExpectedOutput(done) \o Rewrite(line, 1)

(***************************************************************************)
(* C4.  The classifier tests seconds, then milliseconds, then nanoseconds, *)
(* the first match winning, each range half-open: a parsed n yields        *)
(* (n * 10^9, Secs), (n * 10^6, Millis), (n, Nanos) or nothing.            *)
(***************************************************************************)
C4_FirstMatchWins ==
    (Iterated /\ ~last.panic /\ Len(last.number) >= reformatter.min_len
        /\ ParseI64(last.number).ok) =>
        LET n  == ValueOf(last.number)
            b  == reformatter
        IN  IF SLe(b.bound_s.start, n) /\ SLt(n, b.bound_s.end)
            THEN last.kind = "time" /\ last.sec_fmt = "Secs"
                 /\ last.time_ns = SMulPow10(n, 9)
            ELSE IF SLe(b.bound_ms.start, n) /\ SLt(n, b.bound_ms.end)
            THEN last.kind = "time" /\ last.sec_fmt = "Millis"
                 /\ last.time_ns = SMulPow10(n, 6)
            ELSE IF SLe(b.bound_ns.start, n) /\ SLt(n, b.bound_ns.end)
            THEN last.kind = "time" /\ last.sec_fmt = "Nanos" /\ last.time_ns = n
            ELSE last.kind = "pass"

\* what the code keeps of C4: the order of the tests and the half-open
\* ranges, the products taken as the build takes them
FirstMatchWinsInI64 ==
    (Iterated /\ ~last.panic /\ Len(last.number) >= reformatter.min_len
        /\ ParseI64(last.number).ok) =>
        LET n == ValueOf(last.number)
        IN  IF InSecs(n)
            THEN last.sec_fmt = "Secs" /\ last.time_ns = WrapI64(SMulPow10(n, 9))
            ELSE IF InMillis(n)
            THEN last.sec_fmt = "Millis" /\ last.time_ns = WrapI64(SMulPow10(n, 6))
            ELSE IF InNanos(n)
            THEN last.sec_fmt = "Nanos" /\ last.time_ns = n
            ELSE last.kind = "pass"

(***************************************************************************)
(* C5.  The shape of a rendered timestamp follows (localize, resolution):  *)
(* no fractional digits for a value matched by bound_s, exactly 3 for      *)
(* bound_ms, exactly 9 for bound_ns; it ends with a literal Z exactly when *)
(* localize is off, and with the local offset designator when it is on.    *)
(***************************************************************************)
IsDigits(text) == \A i \in 1..Len(text) : IsNumber(text[i])

\* YYYY-MM-DDTHH:MM:SS
IsDateTime(t) ==
    /\ Len(t) = 19
    /\ IsDigits(SubSeq(t, 1, 4)) /\ t[5] = 45 /\ IsDigits(SubSeq(t, 6, 7)) /\ t[8] = 45
    /\ IsDigits(SubSeq(t, 9, 10)) /\ t[11] = 84
    /\ IsDigits(SubSeq(t, 12, 13)) /\ t[14] = 58 /\ IsDigits(SubSeq(t, 15, 16))
    /\ t[17] = 58 /\ IsDigits(SubSeq(t, 18, 19))

\* nothing, or a '.' and exactly k digits
IsFraction(t, k) ==
    IF k = 0 THEN t = <<>>
    ELSE Len(t) = k + 1 /\ t[1] = 46 /\ IsDigits(SubSeq(t, 2, k + 1))

\* +HH:MM or -HH:MM
IsOffsetDesignator(t) ==
    /\ Len(t) = 6
    /\ t[1] \in {43, 45}
    /\ IsDigits(SubSeq(t, 2, 3)) /\ t[4] = 58 /\ IsDigits(SubSeq(t, 5, 6))

HasShape(t, k, localized) ==
    LET tail == IF localized THEN 6 ELSE 1
    IN  /\ Len(t) = 19 + (IF k = 0 THEN 0 ELSE k + 1) + tail
        /\ IsDateTime(SubSeq(t, 1, 19))
        /\ IsFraction(SubSeq(t, 20, Len(t) - tail), k)
        /\ IF localized
           THEN IsOffsetDesignator(SubSeq(t, Len(t) - 5, Len(t))) /\ t[Len(t)] # 90
           ELSE t[Len(t)] = 90

C5_RenderedShape ==
    (Iterated /\ last.kind = "time") =>
        LET n == ValueOf(last.number)
            k == IF InSecs(n) THEN 0 ELSE IF InMillis(n) THEN 3 ELSE 9
        IN  HasShape(last.time, k, args_local)

C5_Witness ==
    /\ Iterated /\ last.kind = "time" /\ args_local /\ local_offset # 0
    /\ ~InSecs(ValueOf(last.number)) /\ InMillis(ValueOf(last.number))
    /\ Len(last.time) = 29

(***************************************************************************)
(* C6.  The length pre-filter is sound for every threshold and start       *)
(* instant: a digit run shorter than min_len never has a value inside      *)
(* bound_s, bound_ms or bound_ns.                                          *)
(***************************************************************************)
C6_PrefilterSound ==
    (Iterated /\ Len(last.number) < reformatter.min_len /\ ParseI64(last.number).ok) =>
        ~InAnyRange(ValueOf(last.number))

(***************************************************************************)
(* C7.  The three ranges built by Reformatter::new are mutually exclusive  *)
(* for every threshold and start instant: no integer lies in two of them.  *)
(***************************************************************************)
SMax(x, y) == IF SLt(x, y) THEN y ELSE x
SMin(x, y) == IF SLt(x, y) THEN x ELSE y

\* two half-open integer ranges share no integer
Disjoint(r1, r2) == ~SLt(SMax(r1.start, r2.start), SMin(r1.end, r2.end))

MutuallyExclusive ==
    /\ Disjoint(reformatter.bound_s, reformatter.bound_ms)
    /\ Disjoint(reformatter.bound_s, reformatter.bound_ns)
    /\ Disjoint(reformatter.bound_ms, reformatter.bound_ns)

C7_AlwaysExclusive == reformatter.ok => MutuallyExclusive

\* C7 as amended: the ranges are mutually exclusive whenever the window
\* starts after 1970 (lower_s > 0), spans less than a factor of 1000
\* (upper_s <= 1000 * lower_s) and upper_s * 10^9 fits an i64
WindowIsNarrow ==
    /\ SLt(SNat(0), reformatter.bound_s.start)
    /\ SLe(reformatter.bound_s.end, SMulPow10(reformatter.bound_s.start, 3))
    /\ SLe(SMulPow10(reformatter.bound_s.end, 9), I64_MAX)

C7_ExclusiveWhenNarrow == (reformatter.ok /\ WindowIsNarrow) => MutuallyExclusive

C7_Witness ==
    /\ reformatter.ok /\ WindowIsNarrow /\ threshold_years = 54
    /\ Iterated /\ last.kind = "time" /\ last.sec_fmt = "Millis"

(***************************************************************************)
(* C8.  Range calibration has no error conditions: for every threshold in  *)
(* the i32 range and the current instant, Reformatter::new completes, and  *)
(* the bounds are exactly now -/+ |threshold| * 365 days in seconds, times *)
(* 1, 1000 and 10^9.                                                       *)
(***************************************************************************)
ExactDelta ==
    LET mag == IF threshold_years < 0 THEN MagAdd(NatMag(-(threshold_years + 1)), <<1>>)
               ELSE NatMag(threshold_years)
    IN  SMk(FALSE, MagMulSmall(MagMulSmall(mag, 365), 86400))

C8_CalibrationExact ==
    pc # "new" =>
        LET lower == SSub(now, ExactDelta)
            upper == SAdd(now, ExactDelta)
        IN  /\ reformatter.ok
            /\ reformatter.bound_s  = [start |-> lower, end |-> upper]
            /\ reformatter.bound_ms = [start |-> SMulPow10(lower, 3),
                                       end   |-> SMulPow10(upper, 3)]
            /\ reformatter.bound_ns = [start |-> SMulPow10(lower, 9),
                                       end   |-> SMulPow10(upper, 9)]

\* what the code keeps of C8: whenever new completes without a wrapped
\* product, the bounds are the exact ones
CalibrationExactWhenItFits ==
    (reformatter.ok /\ SLe(SMulPow10(SAdd(now, ExactDelta), 9), I64_MAX)
        /\ SLe(I64_MIN, SMulPow10(SSub(now, ExactDelta), 9))) =>
        /\ reformatter.bound_s = [start |-> SSub(now, ExactDelta),
                                  end   |-> SAdd(now, ExactDelta)]
        /\ reformatter.bound_ns.start = SMulPow10(reformatter.bound_s.start, 9)
        /\ reformatter.bound_ns.end = SMulPow10(reformatter.bound_s.end, 9)

(***************************************************************************)
(* C9.  write is a single forward pass that always terminates: every       *)
(* iteration of the loop consumes at least one char and the cursor never   *)
(* moves backwards; when no digit remains from the cursor on, the rest of  *)
(* the line is written as it is and the loop stops; a digit run at the     *)
(* very end of the line is still tested, with an empty text_after.         *)
(***************************************************************************)
InLoop == pc = "write" /\ text_iter <= Len(line)

NoDigitFrom(text, i) == \A j \in i..Len(text) : ~IsNumber(text[j])

\* the first digit run from the cursor on reaches the end of the line
RunAtEnd(text, i) ==
    /\ FindNumber(text, i) # 0
    /\ RunEnd(text, FindNumber(text, i)) = Len(text)

IterationConsumes == InLoop => (text_iter' > text_iter /\ line' = line)

CursorNeverBack == (pc = "write" /\ pc' = "write") => text_iter' >= text_iter

RestIsLiteral ==
    (InLoop /\ NoDigitFrom(line, text_iter)) =>
        /\ output' = output \o SubSeq(line, text_iter, Len(line))
        /\ text_iter' = Len(line) + 1
        /\ pc' = "write"

RunAtEndIsTested ==
    (InLoop /\ RunAtEnd(line, text_iter)) =>
        LET ns  == FindNumber(line, text_iter)
            run == SubSeq(line, ns, Len(line))
        IN  /\ last'.text_after = <<>>
            /\ last'.number = run
            /\ last'.kind = IF Accepted(run) THEN "time" ELSE "pass"
            /\ output' = output \o SubSeq(line, text_iter, ns - 1)
                                \o (IF Accepted(run) THEN Replacement(run) ELSE run)
            /\ text_iter' = Len(line) + 1

C9_ForwardPassTerminates ==
    /\ [][IterationConsumes /\ CursorNeverBack /\ RestIsLiteral /\ RunAtEndIsTested]_vars
    /\ (pc = "write") ~> (pc # "write")

C9_Witness ==
    /\ WriteFinished /\ last.kind = "time" /\ last.text_after = <<>>
    /\ Len(line) > Len(last.number)
    /\ EndsWith(line, last.number)

(***************************************************************************)
(* C10.  Scanning is stateless and compositional across non-digit          *)
(* boundaries: write(a + " " + b) produces write(a) + " " + write(b); so   *)
(* the command-line-strings mode (one write per argument, joined by single *)
(* spaces, then a newline) produces what one write of the space-joined     *)
(* arguments followed by a newline produces, and no detection depends on   *)
(* an argument or line processed before.                                   *)
(***************************************************************************)
WriteOf(text) == WriteFrom(reformatter, text, 1, overflow_checks, local_offset)

\* each of the first k items written on its own, with the separators
RECURSIVE EachAlone(_)
EachAlone(k) ==
    IF k = 0 THEN <<>>
    ELSE EachAlone(k - 1) \o WriteOf(items[k]).out \o Separator(k)

SplitsCompose(text) ==
    \A j \in 1..Len(text) :
        text[j] = 32 =>
            LET a == WriteOf(SubSeq(text, 1, j - 1))
                b == WriteOf(SubSeq(text, j + 1, Len(text)))
                w == WriteOf(text)
            IN  IF a.panic THEN w.panic /\ w.out = a.out
                ELSE w.panic = b.panic /\ w.out = a.out \o <<32>> \o b.out

C10_Compositional ==
    /\ (pc = "done" /\ source = "strings") =>
           /\ ~WriteOf(JoinWith(items, 32)).panic
           /\ output = WriteOf(JoinWith(items, 32)).out \o <<10>>
    /\ (WritePanicked /\ source = "strings") =>
           /\ WriteOf(JoinWith(items, 32)).panic
           /\ output = WriteOf(JoinWith(items, 32)).out
    /\ pc = "done" => output = EachAlone(Len(items))
    /\ (WriteFinished \/ WritePanicked) => SplitsCompose(line)

C10_Witness ==
    /\ pc = "done" /\ source = "strings" /\ items = <<TsSecs, TsMillis>>
    /\ Len(output) > Len(TsSecs) + Len(TsMillis) + 2

====
